---- MODULE Spec2Model ----
(***************************************************************************)
(* torchvision/datasets/_optical_flow.py: the optical-flow dataset         *)
(* adapters (Sintel, KittiFlow, FlyingChairs), their shared indexed access *)
(* (FlowDataset.__getitem__ / __len__) and the two flow readers            *)
(* (_read_flo, _read_16bits_png_with_flow_and_valid_mask).                 *)
(*                                                                         *)
(* A file path is a triple <<directory, kind, key>>; glob() yields the set *)
(* of keys present in a directory and sorted() orders them, so a directory *)
(* is a set of keys and a sorted listing is the ascending sequence.        *)
(***************************************************************************)
EXTENDS Integers, Sequences, FiniteSets, TLC

\* Bounds of the model.
MaxFrames == 3      \* image keys present in an image directory: 1..MaxFrames
MaxFlows == 2       \* flow keys present in a flow directory: 1..MaxFlows
MaxIndex == 2       \* indexes passed to get: -(MaxIndex+1)..MaxIndex
MaxDim == 2         \* width and height in a .flo header: 0..MaxDim
MaxData == 4        \* float32 words following a .flo header: 0..MaxData
MaxRows == 1        \* rows of a decoded PNG: 1..MaxRows
MaxCols == 2        \* columns of a decoded PNG: 1..MaxCols

VARIABLES
  variant,                 \* the class of the instance
  split,                   \* the split argument of the constructor
  transforms,              \* self.transforms: "None" or a configured callable
  disk,                    \* the directories the constructor scans
  phase,                   \* "new" (before __init__), "ready", "failed"
  error,                   \* the exception __init__ raised, "" when none
  _image_list,             \* self._image_list
  _flow_list,              \* self._flow_list
  _has_builtin_flow_mask,  \* the class attribute of the instance
  ret,                     \* what the last size()/get() call did and returned
  floFile, floOut,         \* the .flo reader: its input words and its result
  pngFile, pngOut          \* the masked PNG reader: decoded samples and result

vars == <<variant, split, transforms, disk, phase, error, _image_list,
          _flow_list, _has_builtin_flow_mask, ret, floFile, floOut,
          pngFile, pngOut>>

datasetVars == <<variant, split, transforms, disk, phase, error, _image_list,
                 _flow_list, _has_builtin_flow_mask, ret>>

floVars == <<floFile, floOut>>

pngVars == <<pngFile, pngOut>>

----------------------------------------------------------------------------
(* Paths, listings and Python indexing                                     *)

Variants == {"Sintel", "KittiFlow", "FlyingChairs"}

Scenes == {"alley_1", "market_2"}

NoPath == <<"", "", 0>>

NoneItem == [kind |-> "None", of |-> NoPath]

\* The readers' results before they have run
NoRead == [status |-> "unread", shape |-> <<>>, grid |-> <<>>]

NoDecode == [status |-> "undecoded", flow |-> <<>>, valid |-> <<>>]

Min(a, b) == IF a <= b THEN a ELSE b

RECURSIVE SortedKeys(_)
\* sorted(glob(...)) over the keys of one directory
SortedKeys(S) ==
  IF S = {} THEN <<>>
  ELSE LET m == CHOOSE x \in S : \A y \in S : x <= y
       IN <<m>> \o SortedKeys(S \ {m})

\* sorted(glob(str(dir / ("*" + kind)))): the paths, ascending
SortedPaths(dir, kind, S) ==
  LET ks == SortedKeys(S) IN [i \in 1..Len(ks) |-> <<dir, kind, ks[i]>>]

\* (mutation: the index wraps around instead of raising)
PositionWrapping(index, n) == IF n = 0 THEN 0 ELSE (index % n) + 1

\* Python's list[index] on a list of length n: the 1-based position it
\* addresses, or 0 when it raises IndexError.  Negative indexes count from
\* the end.
Position(index, n) ==
  IF index >= 0 /\ index < n THEN index + 1
  ELSE IF index < 0 /\ index >= -n THEN n + index + 1
  ELSE 0

----------------------------------------------------------------------------
(* Construction                                                            *)

Built(il, fl) == [ok |-> TRUE, error |-> "", image_list |-> il, flow_list |-> fl]

Raised(e) == [ok |-> FALSE, error |-> e, image_list |-> <<>>, flow_list |-> <<>>]

\* verify_str_arg(split, "split", valid_values=...)
ValidSplits(v) == IF v = "FlyingChairs" THEN {"train", "val"} ELSE {"train", "test"}

\* (mutation: range(len(image_list) - 2), the last pair of a scene is lost)
SintelPairsShort(scene, d) ==
  LET image_list == SortedPaths(scene, "png", d.png[scene])
  IN [i \in 1..(Len(image_list) - 2) |-> <<image_list[i], image_list[i + 1]>>]

\* Sintel.__init__, the pairs of one scene: consecutive sorted frames
SintelPairs(scene, d) ==
  LET image_list == SortedPaths(scene, "png", d.png[scene])
  IN [i \in 1..(Len(image_list) - 1) |-> <<image_list[i], image_list[i + 1]>>]

\* (mutation: the flow files are collected whatever the split)
SintelFlowsAnySplit(scene, sp, d) == SortedPaths(scene, "flo", d.flo[scene])

\* Sintel.__init__, the flow files of one scene (read for "train" only)
SintelFlows(scene, sp, d) ==
  IF sp = "train" THEN SortedPaths(scene, "flo", d.flo[scene]) ELSE <<>>

RECURSIVE SintelScan(_, _, _, _)
\* Sintel.__init__, the loop over os.listdir(image_root) from position k on
SintelScan(k, sp, d, acc) ==
  IF k > Len(d.scenes) THEN acc
  ELSE SintelScan(k + 1, sp, d,
         Built(acc.image_list \o SintelPairs(d.scenes[k], d),
               acc.flow_list \o SintelFlows(d.scenes[k], sp, d)))

SintelInit(sp, d) ==
  IF sp \notin ValidSplits("Sintel") THEN Raised("ValueError")
  ELSE IF ~d.hasRoot THEN Raised("FileNotFoundError")
  ELSE SintelScan(1, sp, d, Built(<<>>, <<>>))

\* (mutation: the pairing stops one short of the shorter list)
KittiPairsShort(images1, images2) ==
  [i \in 1..(Min(Len(images1), Len(images2)) - 1) |-> <<images1[i], images2[i]>>]

\* KittiFlow.__init__: zip(images1, images2) stops at the shorter list
KittiPairs(images1, images2) ==
  [i \in 1..Min(Len(images1), Len(images2)) |-> <<images1[i], images2[i]>>]

\* (mutation: "and" for "or" in the missing-data test)
KittiMissingBoth(images1, images2) == images1 = <<>> /\ images2 = <<>>

\* KittiFlow.__init__: the missing-data test
KittiMissing(images1, images2) == images1 = <<>> \/ images2 = <<>>

KittiFlowInit(sp, d) ==
  LET images1 == SortedPaths("image_2", "_10", d.img10)
      images2 == SortedPaths("image_2", "_11", d.img11)
  IN IF sp \notin ValidSplits("KittiFlow") THEN Raised("ValueError")
     ELSE IF KittiMissing(images1, images2) THEN Raised("FileNotFoundError")
     ELSE Built(KittiPairs(images1, images2),
                IF sp = "train" THEN SortedPaths("flow_occ", "_10", d.flow_occ)
                ELSE <<>>)

\* (mutation: the split ids of "train" and "val" exchanged)
ChairsKeepSwapped(sp, split_id) ==
  (sp = "train" /\ split_id = 2) \/ (sp = "val" /\ split_id = 1)

\* FlyingChairs.__init__: the retention test on one split id
ChairsKeep(sp, split_id) ==
  (sp = "train" /\ split_id = 1) \/ (sp = "val" /\ split_id = 2)

RECURSIVE ChairsScan(_, _, _, _, _, _)
\* FlyingChairs.__init__, the loop body for flow position i (1-based) on.
\* np.loadtxt squeezes a one-number file to a 0-d array, which cannot be
\* indexed; every out-of-range lookup raises IndexError.
ChairsScan(i, flows, images, sp, d, acc) ==
  IF i > Len(flows) THEN acc
  ELSE IF Len(d.split_list) = 1 \/ i > Len(d.split_list) THEN Raised("IndexError")
  ELSE IF ~ChairsKeep(sp, d.split_list[i]) THEN ChairsScan(i + 1, flows, images, sp, d, acc)
  ELSE IF 2 * i > Len(images) THEN Raised("IndexError")
  ELSE ChairsScan(i + 1, flows, images, sp, d,
         Built(acc.image_list \o <<<<images[2 * i - 1], images[2 * i]>>>>,
               acc.flow_list \o <<flows[i]>>))

FlyingChairsInit(sp, d) ==
  LET images == SortedPaths("data", "ppm", d.ppm)
      flows == SortedPaths("data", "flo", d.chairsFlo)
  IN IF sp \notin ValidSplits("FlyingChairs") THEN Raised("ValueError")
     ELSE IF ~d.hasSplitFile THEN Raised("FileNotFoundError")
     ELSE ChairsScan(1, flows, images, sp, d, Built(<<>>, <<>>))

----------------------------------------------------------------------------
(* Indexed access                                                          *)

\* FlowDataset._has_builtin_flow_mask, overridden by KittiFlow
HasBuiltinFlowMask(v) == v = "KittiFlow"

NoCall ==
  [op |-> "none", index |-> 0, status |-> "", n |-> 0, value |-> <<>>,
   flow |-> NoneItem, valid |-> NoneItem, reader |-> "none",
   imgReads |-> <<>>, flowReads |-> <<>>]

\* FlowDataset._read_img: Image.open(file_name)
_read_img(file_name) == [kind |-> "img", of |-> file_name]

\* The variant's _read_flow on one file.  The decoded data is a function of
\* the file alone; a malformed file makes the reader raise.
_read_flow(v, file_name, d) ==
  [ok |-> file_name[3] \notin d.malformed,
   reader |-> IF v = "KittiFlow" THEN "_read_16bits_png_with_flow_and_valid_mask"
              ELSE "_read_flo",
   flow |-> [kind |-> "flow", of |-> file_name],
   valid |-> IF v = "KittiFlow" THEN [kind |-> "valid", of |-> file_name]
             ELSE NoneItem]

Opaque == [kind |-> "transformed", of |-> NoPath]

\* What a configured transform can do: return a 4-tuple, or fail the call
\* (it raises, or its result does not unpack into the four names).
TransformOutcomes == {"tuple4", "fails"}

\* (mutation: the arity follows the value of valid, not the flag)
ReturnTupleByValid(mask, img1, img2, flow, valid) ==
  IF valid # NoneItem THEN <<img1, img2, flow, valid>> ELSE <<img1, img2, flow>>

\* FlowDataset.__getitem__, the return statement
ReturnTuple(mask, img1, img2, flow, valid) ==
  IF mask THEN <<img1, img2, flow, valid>> ELSE <<img1, img2, flow>>

\* FlowDataset.__getitem__ from the transform on
Finish(call, tout, mask, img1, img2, flow, valid) ==
  IF tout = "none"
    THEN [call EXCEPT !.status = "ok", !.flow = flow, !.valid = valid,
                      !.value = ReturnTuple(mask, img1, img2, flow, valid)]
  ELSE IF tout = "tuple4"
    THEN [call EXCEPT !.status = "ok", !.flow = Opaque, !.valid = Opaque,
                      !.value = ReturnTuple(mask, Opaque, Opaque, Opaque, Opaque)]
  ELSE [call EXCEPT !.status = "TransformError", !.flow = flow, !.valid = valid]

\* FlowDataset.__getitem__(index) on lists il, fl; tout is what the
\* transform does ("none" when self.transforms is None)
getitem(v, mask, il, fl, d, index, tout) ==
  LET call == [NoCall EXCEPT !.op = "get", !.index = index]
      p == Position(index, Len(il))
  IN IF p = 0 THEN [call EXCEPT !.status = "IndexError"]
     ELSE
       LET img1 == _read_img(il[p][1])
           img2 == _read_img(il[p][2])
           opened == [call EXCEPT !.imgReads = <<il[p][1], il[p][2]>>]
       IN IF fl = <<>> THEN Finish(opened, tout, mask, img1, img2, NoneItem, NoneItem)
          ELSE
            LET q == Position(index, Len(fl))
            IN IF q = 0 THEN [opened EXCEPT !.status = "IndexError"]
               ELSE
                 LET r == _read_flow(v, fl[q], d)
                     read == [opened EXCEPT !.flowReads = <<fl[q]>>, !.reader = r.reader]
                 IN IF ~r.ok THEN [read EXCEPT !.status = "FormatError"]
                    ELSE Finish(read, tout, mask, img1, img2, r.flow,
                                IF mask THEN r.valid ELSE NoneItem)

\* FlowDataset.__len__
len(il) == Len(il)

----------------------------------------------------------------------------
(* The directory layouts the constructors are run against                  *)

EmptyDisk ==
  [hasRoot |-> TRUE, scenes |-> <<>>,
   png |-> [s \in Scenes |-> {}], flo |-> [s \in Scenes |-> {}],
   img10 |-> {}, img11 |-> {}, flow_occ |-> {},
   ppm |-> {}, chairsFlo |-> {}, hasSplitFile |-> FALSE, split_list |-> <<>>,
   malformed |-> {}]

Range(s) == {s[i] : i \in 1..Len(s)}

\* The key sets a directory is given: every run a..b of consecutively
\* numbered files within 1..n, the empty directory included.
KeySets(n) == {a..b : a \in 1..n, b \in 0..n}

\* The flow file with key 1 may be malformed.  Flow files are opened for
\* "train" only (Sintel, KittiFlow), so their contents are enumerated there.
Malformed(sp) == IF sp = "train" THEN SUBSET {1} ELSE {{}}

\* os.listdir(image_root): the scene directories present, in some order.
\* The scenes' contents range over every combination, so the layouts are
\* symmetric under renaming the scenes and one order per set is enumerated.
Listings == {<<>>, <<"alley_1">>, <<"market_2">>, <<"alley_1", "market_2">>}

SintelDisks(sp) ==
  {[EmptyDisk EXCEPT !.hasRoot = FALSE]} \cup
  {[EmptyDisk EXCEPT !.scenes = o, !.png = p, !.flo = f, !.malformed = m] :
     o \in Listings,
     p \in [Scenes -> KeySets(MaxFrames)],
     f \in [Scenes -> KeySets(MaxFlows)],
     m \in Malformed(sp)}

KittiDisks(sp) ==
  {[EmptyDisk EXCEPT !.img10 = a, !.img11 = b, !.flow_occ = f, !.malformed = m] :
     a \in KeySets(MaxFrames), b \in KeySets(MaxFrames),
     f \in KeySets(MaxFlows), m \in Malformed(sp)}

SplitIds == {1, 2}

SplitLists == UNION {[1..n -> SplitIds] : n \in 0..(MaxFlows + 1)}

ChairsDisks ==
  {[EmptyDisk EXCEPT !.ppm = a, !.chairsFlo = f] :
     a \in KeySets(MaxFrames + 1), f \in KeySets(MaxFlows)} \cup
  {[EmptyDisk EXCEPT !.ppm = a, !.chairsFlo = f, !.hasSplitFile = TRUE,
                     !.split_list = sl, !.malformed = m] :
     a \in KeySets(MaxFrames + 1), f \in KeySets(MaxFlows),
     sl \in SplitLists, m \in SUBSET {1}}

\* An image directory that os.listdir does not list holds nothing (its flow
\* directory may still exist)
Listed(d) == \A s \in Scenes \ Range(d.scenes) : d.png[s] = {}

Disks(v, sp) ==
  IF sp \notin ValidSplits(v) THEN {EmptyDisk}
  ELSE IF v = "Sintel" THEN {d \in SintelDisks(sp) : Listed(d)}
  ELSE IF v = "KittiFlow" THEN KittiDisks(sp)
  ELSE ChairsDisks

Splits == {"train", "test", "val"}

Indexes == (-(MaxIndex + 1))..MaxIndex

----------------------------------------------------------------------------
(* The dataset as a state machine                                          *)

ReadersIdle ==
  /\ floFile = <<>> /\ floOut = NoRead
  /\ pngFile = <<>> /\ pngOut = NoDecode

Init ==
  /\ variant \in Variants
  /\ split \in Splits
  /\ transforms \in {"None", "T"}
  /\ disk \in Disks(variant, split)
  \* the reader raises on a malformed file before any transform is reached,
  \* so malformed files are enumerated for instances without a transform
  /\ transforms = "T" => disk.malformed = {}
  /\ phase = "new"
  /\ error = ""
  /\ _image_list = <<>>
  /\ _flow_list = <<>>
  /\ _has_builtin_flow_mask = HasBuiltinFlowMask(variant)
  /\ ret = NoCall
  /\ ReadersIdle

\* The variant's __init__
Construct ==
  /\ phase = "new"
  /\ LET r == IF variant = "Sintel" THEN SintelInit(split, disk)
              ELSE IF variant = "KittiFlow" THEN KittiFlowInit(split, disk)
              ELSE FlyingChairsInit(split, disk)
     IN /\ phase' = IF r.ok THEN "ready" ELSE "failed"
        /\ error' = r.error
        /\ _image_list' = r.image_list
        /\ _flow_list' = r.flow_list
  /\ UNCHANGED <<variant, split, transforms, disk, _has_builtin_flow_mask, ret>>
  /\ UNCHANGED <<floVars, pngVars>>

\* size(): __len__
Size ==
  /\ phase = "ready"
  /\ ret' = [NoCall EXCEPT !.op = "size", !.status = "ok", !.n = len(_image_list)]
  /\ UNCHANGED <<variant, split, transforms, disk, phase, error, _image_list,
                 _flow_list, _has_builtin_flow_mask>>
  /\ UNCHANGED <<floVars, pngVars>>

\* (mutation: the accessed list is consumed by the call)
GetConsuming ==
  /\ phase = "ready"
  /\ \E index \in Indexes :
       /\ ret' = getitem(variant, _has_builtin_flow_mask, _image_list, _flow_list,
                         disk, index, "none")
       /\ _image_list' = IF _image_list = <<>> THEN <<>> ELSE Tail(_image_list)
  /\ UNCHANGED <<variant, split, transforms, disk, phase, error,
                 _flow_list, _has_builtin_flow_mask>>
  /\ UNCHANGED <<floVars, pngVars>>

\* get(index): __getitem__
Get ==
  /\ phase = "ready"
  /\ \E index \in Indexes :
       \E tout \in (IF transforms = "None" THEN {"none"} ELSE TransformOutcomes) :
         ret' = getitem(variant, _has_builtin_flow_mask, _image_list, _flow_list,
                        disk, index, tout)
  /\ UNCHANGED <<variant, split, transforms, disk, phase, error, _image_list,
                 _flow_list, _has_builtin_flow_mask>>
  /\ UNCHANGED <<floVars, pngVars>>

Next == Construct \/ Size \/ Get

Spec == Init /\ [][Next]_vars

----------------------------------------------------------------------------
(* The .flo reader.  A file is its sequence of 4-byte little-endian words; *)
(* np.fromfile returns the whole items it could read, fewer than asked at  *)
(* the end of the file.                                                    *)

\* float32 202021.25, the only word that compares equal to the magic number
FloMagicBits == 1212500304

FloError(e) == [status |-> e, shape |-> <<>>, grid |-> <<>>]

\* np.fromfile(f, dtype, count) with the file position at pos
fromfile(f, pos, count) == SubSeq(f, pos + 1, Min(pos + count, Len(f)))

\* (mutation: the data read is cut or zero-padded to the rows that fit)
reshapeTruncating(data, h, w) ==
  LET rows == IF w = 0 THEN h ELSE Min(h, Len(data) \div (2 * w))
  IN [status |-> "ok", shape |-> <<2, rows, w>>,
      grid |-> [c \in 1..2 |-> [y \in 1..rows |-> [x \in 1..w |->
                  data[(c - 1) * rows * w + (y - 1) * w + x]]]]]

\* data.reshape(2, h, w): raises unless data holds exactly 2*h*w items
reshape(data, h, w) ==
  IF Len(data) # 2 * h * w THEN FloError("ValueError")
  ELSE [status |-> "ok", shape |-> <<2, h, w>>,
        grid |-> [c \in 1..2 |-> [y \in 1..h |-> [x \in 1..w |->
                    data[(c - 1) * h * w + (y - 1) * w + x]]]]]

\* What numpy does with the truth value of an empty array, which is what
\* "202021.25 != magic" is on an empty file: False with a deprecation
\* warning, or ValueError in the releases that ended the deprecation.
EmptyTruth == {"False", "ValueError"}

\* _read_flo; int() of an empty array raises TypeError
_read_flo(f, emptyTruth) ==
  LET magic == fromfile(f, 0, 1)
      w == fromfile(f, 1, 1)
      h == fromfile(f, 2, 1)
  IN IF magic = <<>> /\ emptyTruth = "ValueError" THEN FloError("ValueError")
     ELSE IF magic # <<>> /\ magic[1] # FloMagicBits THEN FloError("ValueError")
     ELSE IF w = <<>> THEN FloError("TypeError")
     ELSE IF h = <<>> THEN FloError("TypeError")
     ELSE reshape(fromfile(f, 3, 2 * w[1] * h[1]), h[1], w[1])

MagicWords == {FloMagicBits, 0, FloMagicBits + 1}

DataWords == {0, 1}

WholeFloFiles ==
  {<<m, w, h>> \o data :
     m \in MagicWords, w \in 0..MaxDim, h \in 0..MaxDim,
     data \in UNION {[1..n -> DataWords] : n \in 0..MaxData}}

\* Files with every header, whole or cut short at any word
FloFiles == {f \in UNION {{SubSeq(g, 1, n) : n \in 0..Len(g)} : g \in WholeFloFiles} : TRUE}

DatasetIdle ==
  /\ variant = "Sintel" /\ split = "train" /\ transforms = "None"
  /\ disk = EmptyDisk /\ phase = "new" /\ error = ""
  /\ _image_list = <<>> /\ _flow_list = <<>>
  /\ _has_builtin_flow_mask = FALSE /\ ret = NoCall

InitFlo ==
  /\ DatasetIdle
  /\ floFile \in FloFiles /\ floOut = NoRead
  /\ pngFile = <<>> /\ pngOut = NoDecode

ReadFlo ==
  /\ floOut = NoRead
  /\ \E emptyTruth \in EmptyTruth : floOut' = _read_flo(floFile, emptyTruth)
  /\ UNCHANGED <<floFile, datasetVars, pngVars>>

NextFlo == ReadFlo

SpecFlo == InitFlo /\ [][NextFlo]_vars

FloWasRead == floOut # NoRead

FloHeaderWhole == Len(floFile) >= 3 /\ floFile[1] = FloMagicBits

FloWhole == FloHeaderWhole /\ Len(floFile) >= 3 + 2 * floFile[2] * floFile[3]

FloFailed == floOut.status \in {"ValueError", "TypeError"} /\ floOut.grid = <<>>

----------------------------------------------------------------------------
(* The masked 16-bit PNG reader.  _read_png_16 yields the (3, H, W) grid   *)
(* of the file's 16-bit samples.  A float32 is the fraction num/den; every *)
(* value below is a multiple of 1/64 under 2^16 in size, which float32     *)
(* holds exactly.                                                          *)

FlowOffset == 32768

FlowScale == 64

\* .to(torch.float32) of a 16-bit sample
to_float32(r) == [num |-> r, den |-> 1]

\* (flow - 2 ** 15) / 64 on one value
flow_value(x) == [num |-> x.num - FlowOffset * x.den, den |-> x.den * FlowScale]

\* _read_16bits_png_with_flow_and_valid_mask on the decoded grid t
_read_16bits_png_with_flow_and_valid_mask(t) ==
  LET flow_and_valid ==
        [c \in 1..3 |-> [y \in 1..Len(t[c]) |-> [x \in 1..Len(t[c][y]) |->
           to_float32(t[c][y][x])]]]
      flow == SubSeq(flow_and_valid, 1, 2)
      valid == flow_and_valid[3]
  IN [status |-> "ok",
      flow |-> [c \in 1..2 |-> [y \in 1..Len(flow[c]) |->
                  [x \in 1..Len(flow[c][y]) |-> flow_value(flow[c][y][x])]]],
      valid |-> valid]

MaxSample == 65535

RawSamples == {0, 1, FlowOffset, FlowOffset + FlowScale, MaxSample}

PngGrids ==
  UNION {[1..3 -> [1..rows -> [1..cols -> RawSamples]]] :
           rows \in 1..MaxRows, cols \in 1..MaxCols}

InitPng ==
  /\ DatasetIdle
  /\ floFile = <<>> /\ floOut = NoRead
  /\ pngFile \in PngGrids /\ pngOut = NoDecode

ReadPng ==
  /\ pngOut = NoDecode
  /\ pngOut' = _read_16bits_png_with_flow_and_valid_mask(pngFile)
  /\ UNCHANGED <<pngFile, datasetVars, floVars>>

NextPng == ReadPng

SpecPng == InitPng /\ [][NextPng]_vars

\* C8: the masked PNG reader returns flow values equal to (r - 32768)/64
\* for the raw samples r of channels 0-1, and a valid mask of shape (H, W)
\* that takes only the values 0 and 1, 1 where the raw sample of channel 2
\* is non-zero.
C8_FlowExactAndValidBoolean ==
  pngOut.status = "ok" =>
    LET rows == Len(pngFile[1])
        cols == Len(pngFile[1][1])
    IN /\ \A c \in 1..2 : \A y \in 1..rows : \A x \in 1..cols :
            pngOut.flow[c][y][x].num * 64 =
              (pngFile[c][y][x] - 32768) * pngOut.flow[c][y][x].den
       /\ Len(pngOut.valid) = rows
       /\ \A y \in 1..rows :
            /\ Len(pngOut.valid[y]) = cols
            /\ \A x \in 1..cols :
                 pngOut.valid[y][x].num =
                   (IF pngFile[3][y][x] # 0 THEN 1 ELSE 0) * pngOut.valid[y][x].den

----------------------------------------------------------------------------
(* Properties of the dataset                                               *)

RECURSIVE Sum(_, _)
Sum(f, S) ==
  IF S = {} THEN 0
  ELSE LET x == CHOOSE y \in S : TRUE IN f[x] + Sum(f, S \ {x})

\* The i-th smallest key of a directory, i in 1..Cardinality(S)
Nth(S, i) == CHOOSE x \in S : Cardinality({y \in S : y < x}) = i - 1

Ready == phase = "ready"

ListedScenes == Range(disk.scenes)

\* Consecutive frame pairs a scene's directory yields
PairCount == [s \in Scenes |-> IF Cardinality(disk.png[s]) = 0 THEN 0 ELSE Cardinality(disk.png[s]) - 1]

FloCount == [s \in Scenes |-> Cardinality(disk.flo[s])]

ListsAligned == _flow_list = <<>> \/ Len(_flow_list) = Len(_image_list)

\* The layouts on which the train split's flow files number zero or as many
\* as the image pairs built
LayoutAligned ==
  IF variant = "FlyingChairs" \/ split # "train" THEN TRUE
  ELSE IF variant = "Sintel"
    THEN Sum(FloCount, ListedScenes) \in {0, Sum(PairCount, ListedScenes)}
  ELSE Cardinality(disk.flow_occ) \in
         {0, Min(Cardinality(disk.img10), Cardinality(disk.img11))}

\* C1 as claimed: on every layout, after construction and after any calls,
\* the flow list is empty or as long as the image-pair list.
C1_AlignedOnEveryLayout == Ready => ListsAligned

\* C1 as amended: the flow list is empty or as long as the image-pair list
\* on every FlyingChairs layout and for every split without flow data; for
\* the train split of Sintel and KittiFlow it is so exactly on the layouts
\* whose flow files number zero or as many as the image pairs built.
C1_AlignedIffLayoutAligned == Ready => (ListsAligned <=> LayoutAligned)

C1_Witness ==
  /\ Ready /\ variant = "Sintel" /\ split = "train"
  /\ Len(_image_list) >= 2 /\ Len(_flow_list) = Len(_image_list)
  /\ ret.op = "get" /\ ret.status = "ok"

\* C2: a successful get returns a 4-tuple on KittiFlow and a 3-tuple on
\* Sintel and FlyingChairs, and the built-in-mask flag that decides it is
\* the variant's in every state.
C2_ArityFixedByVariant ==
  /\ _has_builtin_flow_mask = (variant = "KittiFlow")
  /\ (ret.op = "get" /\ ret.status = "ok") =>
       Len(ret.value) = (IF variant = "KittiFlow" THEN 4 ELSE 3)

C2_Witness ==
  /\ variant = "KittiFlow" /\ split = "test" /\ transforms = "T"
  /\ ret.op = "get" /\ ret.status = "ok" /\ Len(ret.value) = 4

ScenePairs(sc) ==
  [i \in 1..PairCount[sc] |->
     <<<<sc, "png", Nth(disk.png[sc], i)>>, <<sc, "png", Nth(disk.png[sc], i + 1)>>>>]

RECURSIVE AllScenePairs(_)
\* ... of the scenes listed from position k on, in listing order
AllScenePairs(k) ==
  IF k > Len(disk.scenes) THEN <<>>
  ELSE ScenePairs(disk.scenes[k]) \o AllScenePairs(k + 1)

SintelTrain == Ready /\ variant = "Sintel" /\ split = "train"

SameSceneAtEveryIndex ==
  /\ Len(_flow_list) = Len(_image_list)
  /\ \A i \in 1..Len(_flow_list) : _flow_list[i][1] = _image_list[i][1][1]

\* One .flo file per consecutive frame pair in every listed scene
FlowPerPair == \A sc \in ListedScenes : FloCount[sc] = PairCount[sc]

\* C4 as claimed: for Sintel "train" the image pairs are the consecutive
\* sorted frames of each scene, there are as many flow entries as image
\* pairs, and the flow entry at an index is of the scene of its image pair.
C4_FlowPerPairAlways ==
  SintelTrain => /\ _image_list = AllScenePairs(1)
                 /\ SameSceneAtEveryIndex

\* C4 as amended: the image pairs are the consecutive sorted frames of each
\* scene and the flow entries are the .flo files of the listed scenes; they
\* are as many as the image pairs, scene by scene at every index, when every
\* listed scene holds one .flo file per consecutive frame pair.
C4_FlowPerPairWhenLayoutHasIt ==
  SintelTrain => /\ _image_list = AllScenePairs(1)
                 /\ Len(_image_list) = Sum(PairCount, ListedScenes)
                 /\ Len(_flow_list) = Sum(FloCount, ListedScenes)
                 /\ FlowPerPair => SameSceneAtEveryIndex

C4_Witness ==
  /\ SintelTrain /\ FlowPerPair /\ Len(disk.scenes) = 2
  /\ Len(_image_list) = 3 /\ _flow_list[3][1] = "market_2"

KittiBuilt == variant = "KittiFlow" /\ split \in {"train", "test"} /\ phase # "new"

KittiFailsFast ==
  (disk.img10 = {} \/ disk.img11 = {}) =>
    phase = "failed" /\ error = "FileNotFoundError" /\ ret = NoCall

KittiPairsAre(n) ==
  /\ Len(_image_list) = n
  /\ ret.op = "size" => ret.n = n
  /\ \A i \in 1..n :
       _image_list[i] = <<<<"image_2", "_10", Nth(disk.img10, i)>>,
                          <<"image_2", "_11", Nth(disk.img11, i)>>>>

\* C5 as claimed: KittiFlow construction fails with the missing-data error
\* when either glob is empty, and otherwise size() is the number of _10
\* files and pair i is (i-th sorted _10 file, i-th sorted _11 file).
C5_SizeIsCountOf10 ==
  KittiBuilt => /\ KittiFailsFast
                /\ Ready => KittiPairsAre(Cardinality(disk.img10))

\* C5 as amended: ... and otherwise size() is the smaller of the numbers of
\* _10 and _11 files, pair i being (i-th sorted _10, i-th sorted _11) for
\* every i below it.
C5_SizeIsSmallerCount ==
  KittiBuilt => /\ KittiFailsFast
                /\ Ready => KittiPairsAre(Min(Cardinality(disk.img10),
                                              Cardinality(disk.img11)))

C5_Witness ==
  /\ KittiBuilt /\ Ready /\ Cardinality(disk.img10) = 3 /\ Cardinality(disk.img11) = 2
  /\ ret.op = "size" /\ ret.n = 2

ChairsBuilt == Ready /\ variant = "FlyingChairs"

WantedId == IF split = "train" THEN 1 ELSE 2

\* The flow positions (1-based) whose split id is the requested one
KeptPositions ==
  {i \in 1..Cardinality(disk.chairsFlo) : disk.split_list[i] = WantedId}

ChairsEntriesAre ==
  /\ Len(_flow_list) = Cardinality(KeptPositions)
  /\ Len(_image_list) = Cardinality(KeptPositions)
  /\ \A k \in 1..Cardinality(KeptPositions) :
       LET i == Nth(KeptPositions, k)
       IN /\ _flow_list[k] = <<"data", "flo", Nth(disk.chairsFlo, i)>>
          /\ _image_list[k] = <<<<"data", "ppm", Nth(disk.ppm, 2 * i - 1)>>,
                                <<"data", "ppm", Nth(disk.ppm, 2 * i)>>>>

MatchingInSplitFile ==
  Cardinality({i \in 1..Len(disk.split_list) : disk.split_list[i] = WantedId})

MatchingAmongFlows ==
  Cardinality({i \in 1..Min(Cardinality(disk.chairsFlo), Len(disk.split_list)) :
                 disk.split_list[i] = WantedId})

\* C6 as claimed: the FlyingChairs entries are the flow positions whose
\* split id is the requested one, in order, each with the images at 2i and
\* 2i+1 of the sorted image list, and they are as many as the matching ids
\* in the split file.
C6_CountOfWholeSplitFile ==
  ChairsBuilt => /\ ChairsEntriesAre
                 /\ Len(_flow_list) = MatchingInSplitFile

\* C6 as amended: ... and they are as many as the matching ids among the
\* split file's entries for the flow files present (its first len(flows)).
C6_CountOfFlowPositions ==
  ChairsBuilt => /\ ChairsEntriesAre
                 /\ Len(_flow_list) = MatchingAmongFlows

C6_Witness ==
  /\ ChairsBuilt /\ split = "val" /\ disk.split_list = <<1, 2, 2>>
  /\ Cardinality(disk.chairsFlo) = 2 /\ Len(_flow_list) = 1
  /\ _image_list[1][1][3] = Nth(disk.ppm, 3)

NoSample == ret.value = <<>> /\ ret.imgReads = <<>> /\ ret.flowReads = <<>>

\* C9 as claimed: a get whose index is not in 0..size()-1 fails with
\* IndexError, returns no sample and opens no file.
C9_OutsideZeroToSize ==
  (ret.op = "get" /\ ret.index \notin 0..(Len(_image_list) - 1)) =>
    ret.status = "IndexError" /\ NoSample

\* C9 as amended: a get whose index is not in -size()..size()-1 fails with
\* IndexError, returns no sample and opens no file; an index in -size()..-1
\* addresses position size()+index.
C9_OutsideMinusSizeToSize ==
  LET n == Len(_image_list) IN
  /\ (ret.op = "get" /\ ret.index \notin (-n)..(n - 1)) =>
       ret.status = "IndexError" /\ NoSample
  /\ (ret.op = "get" /\ ret.index \in (-n)..(-1)) =>
       ret.imgReads = _image_list[n + ret.index + 1]

C9_Witness ==
  /\ ret.op = "get" /\ ret.index = -3 /\ Len(_image_list) = 2
  /\ ret.status = "IndexError"

Frame ==
  /\ phase' = phase /\ disk' = disk
  /\ _image_list' = _image_list /\ _flow_list' = _flow_list
  /\ _has_builtin_flow_mask' = _has_builtin_flow_mask

SameCallAgain ==
  /\ ret.op = ret'.op /\ ret.index = ret'.index
  /\ ret.op = "size" \/ (ret.op = "get" /\ transforms = "None")

\* C10: no size() or get() call changes the image-pair list, the flow
\* list or the built-in-mask flag, and a call repeated with the same index
\* and no transform reads the same files and returns the same result;
\* size() is the length of the image-pair list every time.
C10_CallsChangeNothing ==
  /\ [][Ready => (Frame /\ (SameCallAgain => ret' = ret))]_vars
  /\ [](ret.op = "size" => ret.n = Len(_image_list))

C10_Witness ==
  /\ variant = "FlyingChairs" /\ transforms = "None" /\ Len(_image_list) = 2
  /\ ret.op = "get" /\ ret.index = 1 /\ ret.status = "ok"
  /\ ret.flowReads = <<_flow_list[2]>>

====
